---- MODULE Spec2Model ----
(***************************************************************************)
(* A model of drivers/staging/android/lowmemorykiller.c: the shrinker      *)
(* callback lowmem_shrink, the early-suspend hooks that swap the minfree   *)
(* table, and the environment they run in (page counters, the process      *)
(* list, jiffies).                                                         *)
(*                                                                         *)
(* lowmem_shrink takes no lock of its own, so it is modelled as a          *)
(* sequence of steps per calling thread (pc, frame): one step per tier,    *)
(* and per process one up to the taking of its task lock and one under     *)
(* it, so that concurrent callers, process exit and the memcpy of the      *)
(* suspend hooks interleave with it as they can in the kernel.             *)
(***************************************************************************)
EXTENDS Integers, Sequences, FiniteSets, TLC

\* ------------------------------------------------------------ constants

\* ARRAY_SIZE(lowmem_adj): the capacity of each parameter array.
ARRAY_SIZE == 6

\* linux/oom.h; min_adj starts at OOM_ADJUST_MAX + 1, "no tier breached".
OOM_ADJUST_MAX == 15

\* The arrays as the source initialises them.
DefaultAdj == <<0, 1, 2, 4, 6, 15>>
DefaultMinfree == <<1536, 2048, 3072, 4096, 5120, 6144>>
DefaultMinfile == <<1536, 2048, 4096, 8192, 12288, 16384>>
DefaultFudgeswap == 512

\* --------------------------------------------------------------- bounds

\* Number of processes on the task list.
NumTasks == 3

\* jiffies is an unsigned long that wraps; the model keeps JiffiesBits bits.
JiffiesBits == 2

\* Width kept for an int converted to unsigned long in a comparison.
LongBits == 16

\* Largest page count / threshold drawn in the tier-evaluation inputs.
MaxPages == 3

Threads == {1, 2}
NrToScanValues == {0, 128}
NULL == 0

VARIABLES
    lowmem_adj,                 \* int lowmem_adj[6]
    lowmem_adj_size,
    lowmem_minfree,             \* int lowmem_minfree[6]
    lowmem_minfree_size,
    lowmem_minfree_screen_on,
    lowmem_minfree_screen_off,
    lowmem_minfile,             \* size_t lowmem_minfile[6]
    lowmem_minfile_size,
    lowmem_deathpending_timeout,
    lowmem_check_filepages,
    fudgeswap,
    jiffies,
    vm,          \* global_page_state() counters and si_swapinfo().freeswap
    tasks,       \* the process list, in for_each_process order
    pc,          \* per calling thread: where it is in lowmem_shrink
    frame,       \* per calling thread: the locals of lowmem_shrink
    ret,         \* per calling thread: what its last call returned
    alloc_lock,  \* per process: the thread holding task_lock on it, or 0
    rcu_nesting, \* per calling thread: depth of rcu_read_lock
    pm,          \* the early-suspend thread: screen "on" or "off", or the
                 \*   memcpy into lowmem_minfree it is in ("load", "restore")
    hist         \* per calling thread, history kept to state the claims:
                 \*   entered_clear: no process was death-pending and alive
                 \*     when the current (or last) call entered;
                 \*   peer_signalled: another thread sent SIGKILL while the
                 \*     current (or last) call was running

tables == <<lowmem_adj, lowmem_adj_size, lowmem_minfree, lowmem_minfree_size,
            lowmem_minfree_screen_on, lowmem_minfree_screen_off,
            lowmem_minfile, lowmem_minfile_size>>
knobs == <<lowmem_check_filepages, fudgeswap>>
shared == <<tables, knobs, lowmem_deathpending_timeout, tasks>>
locks == <<alloc_lock, rcu_nesting>>
vars == <<tables, knobs, lowmem_deathpending_timeout, jiffies, vm, tasks,
          pc, frame, ret, alloc_lock, rcu_nesting, pm, hist>>

\* -------------------------------------------------------------- helpers

JiffiesWrap == 2 ^ JiffiesBits
ULongWrap == 2 ^ LongBits

\* (unsigned long)x for an int x.
AsULong(x) == x % ULongWrap

\* time_before_eq(a, b): (long)(a) - (long)(b) <= 0 on wrapping counters.
\* (time_before_eq_Mutant: time_before, < 0 for <= 0.)
time_before_eq_Mutant(a, b) == (a - b) % JiffiesWrap >= JiffiesWrap \div 2
time_before_eq(a, b) ==
    LET d == (a - b) % JiffiesWrap
    IN  d = 0 \/ d >= JiffiesWrap \div 2

\* time_after(a, b): (long)(b) - (long)(a) < 0.
time_after(a, b) ==
    LET d == (b - a) % JiffiesWrap
    IN  d >= JiffiesWrap \div 2

MinOf(a, b) == IF a < b THEN a ELSE b

\* The free swap credited to other_file (CONFIG_SWAP block). fudgeswap is an
\* int and si.freeswap an unsigned long, so the comparison is unsigned.
SwapCredit(fudge, freeswap) ==
    IF fudge # 0 /\ freeswap > 0
    THEN IF AsULong(fudge) > freeswap THEN freeswap ELSE fudge
    ELSE 0

\* What a read of lowmem_minfree[k] can return. While a memcpy of the
\* suspend hooks is writing the array the read races with it, and the word
\* it gets is the one from before the copy or the one being copied in.
ReadMinfree(k) ==
    {lowmem_minfree[k]}
    \cup (IF pm = "load" THEN {lowmem_minfree_screen_off[k]} ELSE {})
    \cup (IF pm = "restore" THEN {lowmem_minfree_screen_on[k]} ELSE {})

\* array_size after the two clamps.
ArraySize == MinOf(MinOf(ARRAY_SIZE, lowmem_adj_size), lowmem_minfree_size)

\* other_free < lowmem_minfree[i] (FreeGateMutant: <= for <)
FreeGateMutant(other_free, minfree) == other_free <= minfree
FreeGate(other_free, minfree) == other_free < minfree

\* other_file < lowmem_minfree[i] ||
\*   (lowmem_check_filepages && lru_file < lowmem_minfile[i]); the second
\* comparison is int against size_t, hence unsigned. (FileGateMutant: the
\* lowmem_check_filepages test dropped.)
FileGateMutant(other_file, minfree, lru_file, minfile) ==
    \/ other_file < minfree
    \/ AsULong(lru_file) < minfile
\* (FileGateMinfileMutant: other_file compared with lowmem_minfile[i].)
FileGateMinfileMutant(other_file, minfree, lru_file, minfile) ==
    \/ other_file < minfile
    \/ (lowmem_check_filepages # 0 /\ AsULong(lru_file) < minfile)
FileGate(other_file, minfree, lru_file, minfile) ==
    \/ other_file < minfree
    \/ (lowmem_check_filepages # 0 /\ AsULong(lru_file) < minfile)

\* min_adj == OOM_ADJUST_MAX + 1 (NoTierBreachedMutant: > for ==)
NoTierBreachedMutant(min_adj) == min_adj > OOM_ADJUST_MAX + 1
NoTierBreached(min_adj) == min_adj = OOM_ADJUST_MAX + 1

\* nr_to_scan <= 0: the caller asks for the count only. (QueryModeMutant:
\* < for <=.)
QueryModeMutant(nr_to_scan) == nr_to_scan < 0
QueryMode(nr_to_scan) == nr_to_scan <= 0

\* tsk->flags & PF_KTHREAD (is_kthread_Mutant: the test left out)
is_kthread_Mutant(p) == FALSE
is_kthread(p) == tasks[p].kthread

\* find_lock_task_mm(tsk) != NULL: the process still has an address space.
\* (find_lock_task_mm_Mutant: a listed process counts without one.)
find_lock_task_mm_Mutant(p) == tasks[p].st # "gone"
find_lock_task_mm(p) == tasks[p].st = "live"

\* oom_adj < min_adj
BelowCutoff(oom_adj, min_adj) == oom_adj < min_adj

\* tasksize <= 0 (NothingToReclaimMutant: < for <=)
NothingToReclaimMutant(tasksize) == tasksize < 0
NothingToReclaim(tasksize) == tasksize <= 0

\* The best-so-far test: the candidate does not replace the selected one.
\* (KeepSelectedMutant: an equal-sized candidate replaces it.)
KeepSelectedMutant(f, oom_adj, tasksize) ==
    /\ f.selected # NULL
    /\ \/ oom_adj < f.selected_oom_adj
       \/ (oom_adj = f.selected_oom_adj /\ tasksize < f.selected_tasksize)
KeepSelected(f, oom_adj, tasksize) ==
    /\ f.selected # NULL
    /\ \/ oom_adj < f.selected_oom_adj
       \/ (oom_adj = f.selected_oom_adj /\ tasksize <= f.selected_tasksize)

\* No process that was sent SIGKILL (TIF_MEMDIE set) still has its mm.
NoVictimAlive == \A p \in DOMAIN tasks : tasks[p].memdie => tasks[p].st # "live"

\* task_lock(p) as find_lock_task_mm takes it: spin_lock(&p->alloc_lock),
\* which waits while another thread holds it.
task_lock(t, p) ==
    /\ alloc_lock[p] = 0
    /\ alloc_lock' = [alloc_lock EXCEPT ![p] = t]

\* task_unlock(p) (task_unlock_Mutant: the unlock left out)
task_unlock_Mutant(p) == UNCHANGED alloc_lock
task_unlock(p) == alloc_lock' = [alloc_lock EXCEPT ![p] = 0]

rcu_read_lock(t) == rcu_nesting' = [rcu_nesting EXCEPT ![t] = @ + 1]
rcu_read_unlock(t) == rcu_nesting' = [rcu_nesting EXCEPT ![t] = @ - 1]

\* The locals of a thread that is not inside lowmem_shrink.
Frame0 ==
    [nr_to_scan |-> 0, other_free |-> 0, other_file |-> 0, lru_file |-> 0,
     array_size |-> 0, i |-> 0, mf |-> 0, min_adj |-> OOM_ADJUST_MAX + 1,
     rem |-> 0, tsk |-> 0, selected |-> NULL, selected_tasksize |-> 0,
     selected_oom_adj |-> 0]

\* A return: the value, which of the five return paths it was, and the
\* process the "send sigkill to" line names (NULL on the other paths).
Return(t, value, outcome, victim) ==
    /\ pc' = [pc EXCEPT ![t] = "idle"]
    /\ frame' = [frame EXCEPT ![t] = Frame0]
    /\ ret' = [ret EXCEPT ![t] = [value |-> value, outcome |-> outcome,
                                  victim |-> victim]]

\* No return value while a call is running.
NoReturn == [value |-> 0, outcome |-> "none", victim |-> NULL]

\* --------------------------------------------------------- lowmem_shrink

\* Entry: the counters are read, the swap credit added, array_size clamped.
Enter(t) ==
    /\ pc[t] = "idle"
    /\ \E nr \in NrToScanValues :
          frame' = [frame EXCEPT ![t] =
              [Frame0 EXCEPT
                 !.nr_to_scan = nr,
                 !.other_free = vm.NR_FREE_PAGES,
                 !.other_file = vm.NR_FILE_PAGES - vm.NR_SHMEM
                                + SwapCredit(fudgeswap, vm.freeswap),
                 !.lru_file = vm.NR_ACTIVE_FILE + vm.NR_INACTIVE_FILE,
                 !.array_size = ArraySize,
                 !.i = 1]]
    /\ pc' = [pc EXCEPT ![t] = "tiers"]
    /\ hist' = [hist EXCEPT ![t] = [entered_clear |-> NoVictimAlive,
                                    peer_signalled |-> FALSE]]
    /\ ret' = [ret EXCEPT ![t] = NoReturn]
    /\ UNCHANGED <<shared, jiffies, vm, locks, pm>>

\* for (i = 0; i < array_size; i++) if (other_free < lowmem_minfree[i])
TierFree(t) ==
    LET f == frame[t] IN
    /\ pc[t] = "tiers"
    /\ IF f.i > f.array_size
       THEN /\ pc' = [pc EXCEPT ![t] = "check"]
            /\ UNCHANGED frame
       ELSE \E minfree \in ReadMinfree(f.i) :
               IF FreeGate(f.other_free, minfree)
               THEN /\ pc' = [pc EXCEPT ![t] = "tier_file"]
                    /\ frame' = [frame EXCEPT ![t].mf = minfree]
               ELSE /\ frame' = [frame EXCEPT ![t].i = f.i + 1]
                    /\ UNCHANGED pc
    /\ UNCHANGED <<shared, jiffies, vm, ret, locks, pm, hist>>

\* The inner if. lowmem_minfree[i] is read a second time without a lock: the
\* build may reuse the value read for the outer if (mf) or load it again.
TierFile(t) ==
    LET f == frame[t] IN
    /\ pc[t] = "tier_file"
    /\ \E minfree \in {f.mf} \cup ReadMinfree(f.i) :
          IF FileGate(f.other_file, minfree, f.lru_file, lowmem_minfile[f.i])
          THEN /\ frame' = [frame EXCEPT ![t].min_adj = lowmem_adj[f.i],
                                         ![t].mf = 0]
               /\ pc' = [pc EXCEPT ![t] = "check"]
          ELSE /\ frame' = [frame EXCEPT ![t].i = f.i + 1, ![t].mf = 0]
               /\ pc' = [pc EXCEPT ![t] = "tiers"]
    /\ UNCHANGED <<shared, jiffies, vm, ret, locks, pm, hist>>

\* After the tier loop: the two early returns, then the scan is set up and
\* rcu_read_lock taken.
Check(t) ==
    LET f == frame[t]
        rem == vm.NR_ACTIVE_ANON + vm.NR_ACTIVE_FILE
               + vm.NR_INACTIVE_ANON + vm.NR_INACTIVE_FILE
    IN
    /\ pc[t] = "check"
    /\ IF NoTierBreached(f.min_adj)
       THEN /\ Return(t, 0, "NoActionNeeded", NULL)
            /\ UNCHANGED rcu_nesting
       ELSE IF QueryMode(f.nr_to_scan)
       THEN /\ Return(t, rem, "Query", NULL)
            /\ UNCHANGED rcu_nesting
       ELSE /\ frame' = [frame EXCEPT ![t].rem = rem,
                                      ![t].selected_oom_adj = f.min_adj,
                                      ![t].tsk = 1]
            /\ pc' = [pc EXCEPT ![t] = "scan"]
            /\ rcu_read_lock(t)
            /\ UNCHANGED ret
    /\ UNCHANGED <<shared, jiffies, vm, alloc_lock, pm, hist>>

\* for_each_process up to find_lock_task_mm: the end of the list, a process
\* that is skipped, or one whose mm is found and whose task lock stays held.
\* find_lock_task_mm takes the lock to look at the mm, and drops it itself
\* when there is none.
Scan(t) ==
    LET f == frame[t]
        p == f.tsk
        next == [frame EXCEPT ![t].tsk = p + 1]
    IN
    /\ pc[t] = "scan"
    /\ IF p > NumTasks
       THEN /\ pc' = [pc EXCEPT ![t] = "kill"]
            /\ UNCHANGED <<frame, alloc_lock>>
       ELSE IF tasks[p].st = "gone" \/ is_kthread(p)
       THEN /\ frame' = next
            /\ UNCHANGED <<pc, alloc_lock>>
       ELSE IF ~find_lock_task_mm(p)
       THEN /\ alloc_lock[p] = 0
            /\ frame' = next
            /\ UNCHANGED <<pc, alloc_lock>>
       ELSE /\ task_lock(t, p)
            /\ pc' = [pc EXCEPT ![t] = "locked"]
            /\ UNCHANGED frame
    /\ UNCHANGED <<shared, jiffies, vm, ret, rcu_nesting, pm, hist>>

\* The rest of the iteration, from the TIF_MEMDIE test, entered with the
\* task lock of the process held: every path drops it, and the abort drops
\* the RCU read lock as well. The size and best-so-far tests come after the
\* unlock and read only what was copied under it.
Candidate(t) ==
    LET f == frame[t]
        p == f.tsk
        next == [frame EXCEPT ![t].tsk = p + 1]
    IN
    /\ pc[t] = "locked"
    /\ task_unlock(p)
    /\ IF /\ tasks[p].memdie
          /\ time_before_eq(jiffies, lowmem_deathpending_timeout)
       THEN /\ rcu_read_unlock(t)
            /\ Return(t, 0, "DeferredCooldownActive", NULL)
       ELSE /\ pc' = [pc EXCEPT ![t] = "scan"]
            /\ UNCHANGED <<ret, rcu_nesting>>
            /\ IF \/ BelowCutoff(tasks[p].oom_adj, f.min_adj)
                  \/ NothingToReclaim(tasks[p].rss)
                  \/ KeepSelected(f, tasks[p].oom_adj, tasks[p].rss)
               THEN frame' = next
               ELSE frame' = [frame EXCEPT
                                 ![t].tsk = p + 1,
                                 ![t].selected = p,
                                 ![t].selected_tasksize = tasks[p].rss,
                                 ![t].selected_oom_adj = tasks[p].oom_adj]
    /\ UNCHANGED <<shared, jiffies, vm, pm, hist>>

\* if (selected) { send_sig; set_tsk_thread_flag; rem -= ... } else rem = -1,
\* then rcu_read_unlock and the return.
Kill(t) ==
    LET f == frame[t] IN
    /\ pc[t] = "kill"
    /\ IF f.selected # NULL
       THEN /\ tasks' = [tasks EXCEPT ![f.selected].sigpending = TRUE,
                                      ![f.selected].memdie = TRUE,
                                      ![f.selected].fresh = TRUE]
            /\ Return(t, f.rem - f.selected_tasksize, "Killed", f.selected)
            /\ hist' = [u \in Threads |->
                  IF u # t /\ pc[u] # "idle"
                  THEN [hist[u] EXCEPT !.peer_signalled = TRUE]
                  ELSE hist[u]]
       ELSE /\ Return(t, -1, "NoEligibleVictim", NULL)
            /\ UNCHANGED <<tasks, hist>>
    /\ rcu_read_unlock(t)
    /\ UNCHANGED <<tables, knobs, lowmem_deathpending_timeout, jiffies, vm,
                   alloc_lock, pm>>

lowmem_shrink(t) ==
    \/ Enter(t)
    \/ TierFree(t)
    \/ TierFile(t)
    \/ Check(t)
    \/ Scan(t)
    \/ Candidate(t)
    \/ Kill(t)

\* ---------------------------------------------------------- environment

\* A timer tick.
Tick ==
    /\ jiffies' = (jiffies + 1) % JiffiesWrap
    /\ tasks' = [p \in DOMAIN tasks |-> [tasks[p] EXCEPT !.fresh = FALSE]]
    /\ UNCHANGED <<tables, knobs, lowmem_deathpending_timeout, vm, pc, frame,
                   ret, locks, pm, hist>>

\* A user process drops its address space (exit_mm, which clears the mm
\* under the task lock and so waits for a holder of it), then leaves the
\* task list. Kernel threads stay: lowmem_shrink skips them before it looks
\* at anything else of theirs.
Exit ==
    /\ \E p \in DOMAIN tasks :
          /\ ~tasks[p].kthread
          /\ \/ /\ tasks[p].st = "live"
                /\ alloc_lock[p] = 0
                /\ tasks' = [tasks EXCEPT ![p].st = "nomm"]
             \/ /\ tasks[p].st = "nomm"
                /\ tasks' = [tasks EXCEPT ![p].st = "gone"]
    /\ UNCHANGED <<tables, knobs, lowmem_deathpending_timeout, jiffies, vm,
                   pc, frame, ret, locks, pm, hist>>

\* The page counters as one reading.
Vm(free, file, shmem, afile, ifile, aanon, ianon, swap) ==
    [NR_FREE_PAGES |-> free, NR_FILE_PAGES |-> file, NR_SHMEM |-> shmem,
     NR_ACTIVE_FILE |-> afile, NR_INACTIVE_FILE |-> ifile,
     NR_ACTIVE_ANON |-> aanon, NR_INACTIVE_ANON |-> ianon, freeswap |-> swap]

\* Three readings against the default table: plenty of memory, the fifth
\* tier breached (cutoff 6), the first tier breached (cutoff 0).
Snapshots ==
    {Vm(8000, 9000, 0, 3000, 3000, 2000, 2000, 0),
     Vm(5000, 3000, 0, 1000, 1000, 2000, 2000, 0),
     Vm(1000, 400, 0, 100, 100, 2000, 2000, 0)}

\* The page counters move with the system's memory use. lowmem_shrink reads
\* them on entry and again for rem, so a change is taken when the caller is
\* about to read them: a change at any other moment is seen as one there.
VmChange ==
    /\ \A t \in Threads : pc[t] \in {"idle", "check"}
    /\ vm' \in Snapshots \ {vm}
    /\ UNCHANGED <<shared, jiffies, pc, frame, ret, locks, pm, hist>>

\* ------------------------------------------------------- suspend hooks

\* low_mem_early_suspend: memcpy(lowmem_minfree_screen_on, lowmem_minfree),
\* then memcpy(lowmem_minfree, lowmem_minfree_screen_off), with no lock
\* against lowmem_shrink. Nothing reads lowmem_minfree_screen_on while the
\* hook runs, so the first copy is one step; the second is in progress from
\* that step (pm = "load") until the step that ends it, and a read of
\* lowmem_minfree in between races with it (ReadMinfree).
\* (low_mem_early_suspend_Mutant: the first memcpy left out.)
low_mem_early_suspend_Mutant ==
    /\ \/ /\ pm = "on"
          /\ pm' = "load"
          /\ UNCHANGED <<lowmem_minfree, lowmem_minfree_screen_on>>
       \/ /\ pm = "load"
          /\ lowmem_minfree' = lowmem_minfree_screen_off
          /\ pm' = "off"
          /\ UNCHANGED lowmem_minfree_screen_on
    /\ UNCHANGED <<lowmem_adj, lowmem_adj_size, lowmem_minfree_size,
                   lowmem_minfree_screen_off, lowmem_minfile,
                   lowmem_minfile_size, knobs, lowmem_deathpending_timeout,
                   jiffies, vm, tasks, pc, frame, ret, locks, hist>>
low_mem_early_suspend ==
    /\ \/ /\ pm = "on"
          /\ lowmem_minfree_screen_on' = lowmem_minfree
          /\ pm' = "load"
          /\ UNCHANGED lowmem_minfree
       \/ /\ pm = "load"
          /\ lowmem_minfree' = lowmem_minfree_screen_off
          /\ pm' = "off"
          /\ UNCHANGED lowmem_minfree_screen_on
    /\ UNCHANGED <<lowmem_adj, lowmem_adj_size, lowmem_minfree_size,
                   lowmem_minfree_screen_off, lowmem_minfile,
                   lowmem_minfile_size, knobs, lowmem_deathpending_timeout,
                   jiffies, vm, tasks, pc, frame, ret, locks, hist>>

\* low_mem_late_resume: memcpy(lowmem_minfree, lowmem_minfree_screen_on), in
\* progress from its first step (pm = "restore") to its second.
low_mem_late_resume ==
    /\ \/ /\ pm = "off"
          /\ pm' = "restore"
          /\ UNCHANGED lowmem_minfree
       \/ /\ pm = "restore"
          /\ lowmem_minfree' = lowmem_minfree_screen_on
          /\ pm' = "on"
    /\ UNCHANGED <<lowmem_adj, lowmem_adj_size, lowmem_minfree_size,
                   lowmem_minfree_screen_on, lowmem_minfree_screen_off,
                   lowmem_minfile, lowmem_minfile_size, knobs,
                   lowmem_deathpending_timeout, jiffies, vm, tasks, pc, frame,
                   ret, locks, hist>>

\* ------------------------------------------------------- specifications

\* A process as lowmem_shrink sees it: PF_KTHREAD, signal->oom_adj,
\* get_mm_rss, whether it has an mm ("live"), has dropped it ("nomm") or has
\* left the list ("gone"), TIF_MEMDIE, a pending SIGKILL. fresh is history:
\* the SIGKILL was sent in the current jiffy.
Task(kthread, oom_adj, rss) ==
    [kthread |-> kthread, oom_adj |-> oom_adj, rss |-> rss, st |-> "live",
     memdie |-> FALSE, sigpending |-> FALSE, fresh |-> FALSE]

\* A task list of any length: a kernel thread borrowing an mm, then user
\* processes of decreasing oom_adj.
TaskList == <<Task(TRUE, 15, 300), Task(FALSE, 15, 200), Task(FALSE, 6, 200),
              Task(FALSE, 15, 100), Task(FALSE, 0, 400)>>
DefaultTasks == [p \in 1..NumTasks |-> TaskList[((p - 1) % Len(TaskList)) + 1]]

\* The module's static initialisers, and every thread outside lowmem_shrink.
InitStatics ==
    /\ lowmem_adj = DefaultAdj
    /\ lowmem_adj_size = ARRAY_SIZE
    /\ lowmem_minfree = DefaultMinfree
    /\ lowmem_minfree_size = ARRAY_SIZE
    /\ lowmem_minfree_screen_on = DefaultMinfree
    /\ lowmem_minfree_screen_off = DefaultMinfree
    /\ lowmem_minfile = DefaultMinfile
    /\ lowmem_minfile_size = ARRAY_SIZE
    /\ lowmem_check_filepages = 0
    /\ fudgeswap = DefaultFudgeswap

InitThreads ==
    /\ lowmem_deathpending_timeout = 0
    /\ pc = [t \in Threads |-> "idle"]
    /\ frame = [t \in Threads |-> Frame0]
    /\ ret = [t \in Threads |-> NoReturn]
    /\ alloc_lock = [p \in 1..NumTasks |-> 0]
    /\ rcu_nesting = [t \in Threads |-> 0]
    /\ pm = "on"
    /\ hist = [t \in Threads |-> [entered_clear |-> TRUE,
                                   peer_signalled |-> FALSE]]

\* The driver as loaded, called from one thread at a time, while time
\* passes, memory use changes and processes exit.
Init ==
    /\ InitStatics
    /\ InitThreads
    /\ jiffies \in 0..(JiffiesWrap - 1)
    /\ vm \in Snapshots
    /\ tasks = DefaultTasks

Next ==
    \/ lowmem_shrink(1)
    \/ Tick
    \/ Exit
    \/ VmChange

Spec == Init /\ [][Next]_vars

\* ---- tier evaluation on drawn inputs

\* A three-tier table as an administrator writes it: the first three slots
\* of each array, the rest left as initialised.
TierIndexes == {1, 2, 3}
Written(default, prefix) ==
    [k \in 1..ARRAY_SIZE |-> IF k \in DOMAIN prefix THEN prefix[k] ELSE default[k]]

\* Every minfree table over 0..MaxPages (sorted or not), a rising minfile
\* table, every small reading, the file-page check on or off, a swap credit
\* of 0 or 1.
InitTiers ==
    /\ InitThreads
    /\ lowmem_adj = DefaultAdj
    /\ lowmem_adj_size = Cardinality(TierIndexes)
    /\ lowmem_minfree_size = Cardinality(TierIndexes)
    /\ lowmem_minfile_size = Cardinality(TierIndexes)
    /\ \E prefix \in [TierIndexes -> 0..MaxPages] :
          /\ lowmem_minfree = Written(DefaultMinfree, prefix)
          /\ lowmem_minfree_screen_on = lowmem_minfree
    /\ lowmem_minfree_screen_off = DefaultMinfree
    /\ \E c \in {0, 1} :
          lowmem_minfile = Written(DefaultMinfile, [k \in TierIndexes |-> c + k - 1])
    /\ lowmem_check_filepages \in {0, 1}
    /\ fudgeswap \in {0, DefaultFudgeswap}
    /\ \E free \in 0..MaxPages, file \in 0..MaxPages, afile \in {0, 1, MaxPages} :
          vm = Vm(free, file, 0, afile, 0, 1, 1, 1)
    /\ jiffies = 1
    /\ tasks = DefaultTasks

NextTiers == lowmem_shrink(1)

SpecTiers == InitTiers /\ [][NextTiers]_vars

\* ---- victim selection on drawn process lists

\* A kernel thread that would otherwise be the best victim, and user
\* processes below, at and above the cutoff with nothing, little and more
\* to reclaim.
SelectProfiles ==
    {Task(TRUE, 15, 2)}
    \cup {Task(FALSE, a, r) : a \in {0, 6, 15}, r \in {0, 1, 2}}

\* The driver as loaded, the fifth tier breached (cutoff 6), every process
\* list over SelectProfiles.
InitSelect ==
    /\ InitStatics
    /\ InitThreads
    /\ jiffies = 1
    /\ vm = Vm(5000, 3000, 0, 1000, 1000, 2000, 2000, 0)
    /\ tasks \in [1..NumTasks -> SelectProfiles]

NextSelect == lowmem_shrink(1)

SpecSelect == InitSelect /\ [][NextSelect]_vars

\* ---- concurrent callers and the suspend hooks

\* The header comment's two-tier example (adj "0,8"), minfree "2048,4096"
\* with the screen on and "1024,1280" with it off, free and file between the
\* two, jiffies just before lowmem_deathpending_timeout (a death-pending
\* process defers every scan that meets it), and two threads in lowmem_shrink
\* while the screen goes off and on.
InitConc ==
    /\ InitThreads
    /\ lowmem_adj = Written(DefaultAdj, <<0, 8>>)
    /\ lowmem_adj_size = 2
    /\ lowmem_minfree = Written(DefaultMinfree, <<2048, 4096>>)
    /\ lowmem_minfree_size = 2
    /\ lowmem_minfree_screen_on = lowmem_minfree
    /\ lowmem_minfree_screen_off = Written(DefaultMinfree, <<1024, 1280>>)
    /\ lowmem_minfile = DefaultMinfile
    /\ lowmem_minfile_size = ARRAY_SIZE
    /\ lowmem_check_filepages = 0
    /\ fudgeswap = DefaultFudgeswap
    /\ jiffies = JiffiesWrap - 1
    /\ vm = Vm(1500, 1000, 0, 500, 500, 100, 100, 0)
    /\ tasks = DefaultTasks

NextConc ==
    \/ \E t \in Threads : lowmem_shrink(t)
    \/ low_mem_early_suspend
    \/ low_mem_late_resume

SpecConc == InitConc /\ [][NextConc]_vars

\* ---- tables whose parameter arrays were written with different lengths

\* Each module_param_array write stores as many leading slots as it was given
\* values and their count in the array's size variable; the slots past the
\* count keep what they held. Here every array was written once, adj with
\* its default values, with counts drawn independently.
InitSizes ==
    /\ InitThreads
    /\ lowmem_adj = DefaultAdj
    /\ lowmem_adj_size \in TierIndexes
    /\ lowmem_minfree_size \in TierIndexes
    /\ lowmem_minfile_size \in TierIndexes
    /\ \E prefix \in [1..lowmem_minfree_size -> 0..MaxPages] :
          /\ lowmem_minfree = Written(DefaultMinfree, prefix)
          /\ lowmem_minfree_screen_on = lowmem_minfree
    /\ lowmem_minfree_screen_off = DefaultMinfree
    /\ \E c \in {0, 1} :
          lowmem_minfile =
              Written(DefaultMinfile, [k \in 1..lowmem_minfile_size |-> c])
    /\ lowmem_check_filepages \in {0, 1}
    /\ fudgeswap = 0
    /\ \E free \in 0..MaxPages, file \in {0, MaxPages}, afile \in {0, MaxPages} :
          vm = Vm(free, file, 0, afile, 0, 1, 1, 0)
    /\ jiffies = 1
    /\ tasks = DefaultTasks

NextSizes == lowmem_shrink(1)

SpecSizes == InitSizes /\ [][NextSizes]_vars

\* ---- the two-tier table (0, 768, 1536), (8, 4096, 8192)

\* adj "0,8", minfree "768,4096", minfile "1536,8192", and readings below,
\* between and above its thresholds, with the file-page check off or on and
\* with or without a swap credit.
InitScenario ==
    /\ InitThreads
    /\ lowmem_adj = Written(DefaultAdj, <<0, 8>>)
    /\ lowmem_adj_size = 2
    /\ lowmem_minfree = Written(DefaultMinfree, <<768, 4096>>)
    /\ lowmem_minfree_size = 2
    /\ lowmem_minfree_screen_on = lowmem_minfree
    /\ lowmem_minfree_screen_off = DefaultMinfree
    /\ lowmem_minfile = Written(DefaultMinfile, <<1536, 8192>>)
    /\ lowmem_minfile_size = 2
    /\ lowmem_check_filepages \in {0, 1}
    /\ fudgeswap \in {0, DefaultFudgeswap}
    /\ \E free \in {500, 2000, 5000}, file \in {500, 3000, 5000},
          lru \in {500, 5000}, swap \in {0, 100, 1000} :
          vm = Vm(free, file, 0, lru, lru, 100, 100, swap)
    /\ jiffies = 1
    /\ tasks = DefaultTasks

NextScenario == lowmem_shrink(1)

SpecScenario == InitScenario /\ [][NextScenario]_vars

\* ---- candidate lists with nobody to kill, and small LRU counts

\* The profiles of SelectProfiles, and a process that has dropped its mm or
\* has left the task list (three of the latter are the empty list).
OutcomeProfiles ==
    SelectProfiles
    \cup {[Task(FALSE, 15, 2) EXCEPT !.st = "nomm"],
          [Task(FALSE, 15, 2) EXCEPT !.st = "gone"]}

\* The driver as loaded, the fifth tier breached (cutoff 6), every process
\* list over OutcomeProfiles, and the LRU lists well filled or all but empty
\* (the file pages unevictable): rem can be below a process's resident size.
InitOutcome ==
    /\ InitStatics
    /\ InitThreads
    /\ jiffies = 1
    /\ vm \in {Vm(5000, 3000, 0, 1000, 1000, 2000, 2000, 0),
               Vm(5000, 3000, 0, 0, 0, 1, 0, 0)}
    /\ tasks \in [1..NumTasks -> OutcomeProfiles]

NextOutcome == lowmem_shrink(1)

SpecOutcome == InitOutcome /\ [][NextOutcome]_vars

\* ---- counters read while they change, and the swap credit

\* A two-tier table over 0..MaxPages, and readings taken while the counters
\* move: NR_SHMEM read after NR_FILE_PAGES can exceed it, so other_file can
\* start negative (global_page_state itself returns no negative count).
\* fudgeswap is an int parameter: negative, 0, below and above free swap.
InitCounters ==
    /\ InitThreads
    /\ lowmem_adj = DefaultAdj
    /\ lowmem_adj_size = 2
    /\ lowmem_minfree_size = 2
    /\ lowmem_minfile_size = 2
    /\ \E prefix \in [1..2 -> 0..MaxPages] :
          /\ lowmem_minfree = Written(DefaultMinfree, prefix)
          /\ lowmem_minfree_screen_on = lowmem_minfree
    /\ lowmem_minfree_screen_off = DefaultMinfree
    /\ lowmem_minfile = Written(DefaultMinfile, <<1, MaxPages>>)
    /\ lowmem_check_filepages \in {0, 1}
    /\ fudgeswap \in {-1, 0, 1, MaxPages}
    /\ \E free \in 0..MaxPages, file \in 0..MaxPages, shmem \in {0, MaxPages},
          afile \in {0, MaxPages}, swap \in {0, 1, MaxPages} :
          vm = Vm(free, file, shmem, afile, 0, 1, 1, swap)
    /\ jiffies = 1
    /\ tasks = DefaultTasks

NextCounters == lowmem_shrink(1)

SpecCounters == InitCounters /\ [][NextCounters]_vars

\* ---- process lists with death-pending processes

\* A process that was sent SIGKILL earlier and has TIF_MEMDIE set.
Dying(task) == [task EXCEPT !.memdie = TRUE, !.sigpending = TRUE]

\* A kernel thread, processes above, at and below the cutoff, and
\* death-pending ones above and below it, with an mm and without.
DyingProfiles ==
    {Task(TRUE, 15, 2), Task(FALSE, 15, 2), Task(FALSE, 6, 1),
     Task(FALSE, 0, 2), Dying(Task(FALSE, 15, 2)), Dying(Task(FALSE, 0, 2)),
     [Dying(Task(FALSE, 15, 2)) EXCEPT !.st = "nomm"]}

\* The driver as loaded, the fifth tier breached (cutoff 6), every process
\* list over DyingProfiles, jiffies at, before and after
\* lowmem_deathpending_timeout.
InitDying ==
    /\ InitStatics
    /\ InitThreads
    /\ jiffies \in 0..(JiffiesWrap - 1)
    /\ vm = Vm(5000, 3000, 0, 1000, 1000, 2000, 2000, 0)
    /\ tasks \in [1..NumTasks -> DyingProfiles]

NextDying == lowmem_shrink(1)

SpecDying == InitDying /\ [][NextDying]_vars

\* ---- the screen going off and on after the tables were written

\* The minfree table in use before the first screen-off.
ScreenOnTable == Written(DefaultMinfree, <<2048, 4096>>)

\* adj "0,8", minfree "2048,4096" and minfree_screen_off "1024,1280" written
\* since the module was loaded, and no suspend yet: lowmem_minfree_screen_on
\* has no parameter and still holds its initial values. One caller, readings
\* below, between and above the thresholds, and the two hooks.
InitScreen ==
    /\ InitThreads
    /\ lowmem_adj = Written(DefaultAdj, <<0, 8>>)
    /\ lowmem_adj_size = 2
    /\ lowmem_minfree = ScreenOnTable
    /\ lowmem_minfree_size = 2
    /\ lowmem_minfree_screen_on = DefaultMinfree
    /\ lowmem_minfree_screen_off = Written(DefaultMinfree, <<1024, 1280>>)
    /\ lowmem_minfile = DefaultMinfile
    /\ lowmem_minfile_size = ARRAY_SIZE
    /\ lowmem_check_filepages \in {0, 1}
    /\ fudgeswap = DefaultFudgeswap
    /\ jiffies = 1
    /\ vm \in {Vm(500, 400, 0, 500, 500, 100, 100, 0),
               Vm(1500, 1000, 0, 500, 500, 100, 100, 0),
               Vm(3000, 3000, 0, 500, 500, 100, 100, 0),
               Vm(5000, 5000, 0, 500, 500, 100, 100, 0)}
    /\ tasks = DefaultTasks

NextScreen ==
    \/ lowmem_shrink(1)
    \/ low_mem_early_suspend
    \/ low_mem_late_resume

SpecScreen == InitScreen /\ [][NextScreen]_vars

\* ------------------------------------------------------------- claims

\* Thread t takes a step of lowmem_shrink.
EvalStep(t) == pc'[t] # pc[t] \/ frame'[t] # frame[t]

\* Thread t returns from lowmem_shrink in this step.
Returns(t) == pc[t] # "idle" /\ pc'[t] = "idle"

\* Thread t sends SIGKILL in this step.
Kills(t) == Returns(t) /\ ret'[t].outcome = "Killed"

\* A candidate that survives the filter for a cutoff.
Eligible(p, cutoff) ==
    /\ ~tasks[p].kthread
    /\ tasks[p].st = "live"
    /\ tasks[p].oom_adj >= cutoff
    /\ tasks[p].rss > 0

\* The configured tiers of a well-formed table, and what breaches one.
Tiers == 1..lowmem_minfree_size
BreachedWith(f, minfree, k) ==
    /\ f.other_free < minfree[k]
    /\ \/ f.other_file < minfree[k]
       \/ (lowmem_check_filepages # 0 /\ f.lru_file < lowmem_minfile[k])
Breached(f, k) == BreachedWith(f, lowmem_minfree, k)
BreachedTiers(f) == {k \in Tiers : Breached(f, k)}
Lowest(S) == CHOOSE k \in S : \A j \in S : k <= j
\* The cutoff a reading gets from one whole minfree table.
CutoffWith(f, minfree) ==
    LET B == {k \in Tiers : BreachedWith(f, minfree, k)} IN
    IF B = {} THEN OOM_ADJUST_MAX + 1 ELSE lowmem_adj[Lowest(B)]
SortedMinfree ==
    \A j, k \in Tiers : j <= k => lowmem_minfree[j] <= lowmem_minfree[k]
FreeAboveAll(f) == \A k \in Tiers : f.other_free >= lowmem_minfree[k]

\* C3: whenever an evaluation signals a victim, the victim has the highest
\* oom_adj among the eligible candidates, the largest resident size among
\* those with that oom_adj, and is the first enumerated among those that tie
\* on both.
C3_VictimIsBest ==
    [][\A t \in Threads : Kills(t) =>
          LET v == ret'[t].victim IN
          /\ v \in DOMAIN tasks
          /\ tasks'[v].sigpending
          /\ \A q \in DOMAIN tasks : Eligible(q, frame[t].min_adj) =>
                /\ tasks[v].oom_adj >= tasks[q].oom_adj
                /\ tasks[v].oom_adj = tasks[q].oom_adj =>
                      tasks[v].rss >= tasks[q].rss
                /\ (tasks[v].oom_adj = tasks[q].oom_adj
                      /\ tasks[v].rss = tasks[q].rss) => v <= q]_vars

\* C3 witness: a victim was signalled while a later process tied with it on
\* oom_adj and size, and another of the same oom_adj was smaller.
C3_Witness ==
    /\ ret[1].outcome = "Killed"
    /\ \E q, r \in DOMAIN tasks :
          LET v == ret[1].victim IN
          /\ v < q
          /\ Eligible(q, 6) /\ Eligible(r, 6)
          /\ tasks[q].oom_adj = tasks[v].oom_adj
          /\ tasks[q].rss = tasks[v].rss
          /\ tasks[r].oom_adj = tasks[v].oom_adj
          /\ tasks[r].rss < tasks[v].rss

\* C4: the process an evaluation signals is never a kernel thread, never has
\* oom_adj below the cutoff of the breached tier, never has resident size <= 0.
C4_VictimPassesFilter ==
    [][\A t \in Threads : Kills(t) =>
          LET v == ret'[t].victim IN
          /\ v \in DOMAIN tasks
          /\ tasks'[v].sigpending
          /\ ~tasks[v].kthread
          /\ tasks[v].oom_adj >= frame[t].min_adj
          /\ tasks[v].rss > 0]_vars

\* C4 witness: a victim was signalled although a bigger kernel thread and a
\* process with nothing to reclaim, both of higher oom_adj, were listed.
C4_Witness ==
    /\ ret[1].outcome = "Killed"
    /\ \E k, z \in DOMAIN tasks :
          LET v == ret[1].victim IN
          /\ tasks[k].kthread /\ tasks[k].oom_adj > tasks[v].oom_adj
          /\ tasks[k].rss > tasks[v].rss
          /\ ~tasks[z].kthread /\ tasks[z].rss = 0
          /\ tasks[z].oom_adj > tasks[v].oom_adj

\* C5: for a table sorted ascending by minfree, the tier loop ends with the
\* cutoff of the first tier that is breached (free below its minfree, and
\* file below its minfree or, with the file-page check on, lru_file below its
\* minfile), and with none exactly when no tier is breached.
C5_FirstBreachedTier ==
    \A t \in Threads : (pc[t] = "check" /\ SortedMinfree) =>
        LET B == BreachedTiers(frame[t]) IN
        IF B = {}
        THEN frame[t].min_adj = OOM_ADJUST_MAX + 1
        ELSE frame[t].min_adj = lowmem_adj[Lowest(B)]

\* C5 witness: the loop ended on the second tier of a sorted table, the
\* first unbreached and the third breached as well.
C5_Witness ==
    /\ pc[1] = "check"
    /\ SortedMinfree
    /\ BreachedTiers(frame[1]) = {2, 3}
    /\ frame[1].min_adj = lowmem_adj[2]

\* C6: an evaluation whose free count is at or above every tier's minfree
\* breaches no tier, whatever the file, lru and swap readings and the
\* file-page toggle, and never reaches the scan or the kill.
C6_FreeAboveAllNoAction ==
    \A t \in Threads : (pc[t] # "idle" /\ FreeAboveAll(frame[t])) =>
        /\ pc[t] \in {"tiers", "check"}
        /\ frame[t].min_adj = OOM_ADJUST_MAX + 1

\* C6 witness: free is at every minfree, file and lru_file are below the
\* first tier's thresholds with the file-page check on, and the loop ended.
C6_Witness ==
    /\ pc[1] = "check"
    /\ FreeAboveAll(frame[1])
    /\ frame[1].other_file < lowmem_minfree[1]
    /\ lowmem_check_filepages = 1
    /\ frame[1].lru_file < lowmem_minfile[1]
    /\ frame[1].min_adj = OOM_ADJUST_MAX + 1

\* C1: once an evaluation has signalled a victim, no later evaluation signals
\* a process while that victim has not exited and the grace period has not
\* elapsed. A victim signalled in the current jiffy (fresh) is within any
\* grace period that ends later than the moment of the kill.
C1_OneKillInFlight ==
    [][\A t \in Threads : Kills(t) =>
          ~\E q \in DOMAIN tasks :
              tasks[q].st = "live" /\ tasks[q].memdie /\ tasks[q].fresh]_vars

\* C7: an evaluation whose snapshot breaches no tier changes no shared state
\* at any of its steps and returns 0 on the no-action path, however often it
\* is repeated.
C7_NoBreachNoChange ==
    [][\A t \in Threads :
          /\ (EvalStep(t) /\ pc[t] = "idle") => UNCHANGED shared
          /\ (EvalStep(t) /\ pc[t] # "idle"
                /\ BreachedTiers(frame[t]) = {}) =>
                /\ UNCHANGED shared
                /\ Returns(t) => /\ ret'[t].value = 0
                                 /\ ret'[t].outcome = "NoActionNeeded"]_vars

\* C7 witness: an evaluation has returned on the no-action path while the
\* victim of an earlier kill was still alive and death-pending.
C7_Witness ==
    /\ ret[1].outcome = "NoActionNeeded"
    /\ \E p \in DOMAIN tasks : tasks[p].memdie /\ tasks[p].st = "live"

\* C8: an evaluation sets the cooldown deadline to a time after now and
\* marks the victim death-pending exactly when it sends the signal; a step
\* that sends no signal leaves the deadline and the death-pending marks alone.
C8_DeadlineRecordedOnSignal ==
    [][\A t \in Threads : EvalStep(t) =>
          IF Kills(t)
          THEN /\ time_after(lowmem_deathpending_timeout', jiffies)
               /\ tasks'[ret'[t].victim].memdie
          ELSE /\ UNCHANGED lowmem_deathpending_timeout
               /\ \A p \in DOMAIN tasks : tasks'[p].memdie = tasks[p].memdie]_vars

\* C9: an evaluation that entered when every signalled victim had exited
\* (no mm, or off the task list) and that scans under a breached tier is not
\* deferred, and if a candidate is eligible it signals one that passes the
\* filter and was not death-pending before.
C9_ExitedVictimEndsCooldown ==
    [][\A t \in Threads :
          (/\ Returns(t)
           /\ pc[t] \in {"scan", "locked", "kill"}
           /\ hist[t].entered_clear) =>
              /\ ret'[t].outcome # "DeferredCooldownActive"
              /\ (\E p \in DOMAIN tasks : Eligible(p, frame[t].min_adj)) =>
                    /\ Kills(t)
                    /\ ~tasks[ret'[t].victim].memdie
                    /\ ~tasks[ret'[t].victim].kthread
                    /\ tasks[ret'[t].victim].oom_adj >= frame[t].min_adj
                    /\ tasks[ret'[t].victim].rss > 0]_vars

\* C9 witness: within the deadline, with an earlier victim exited, an
\* evaluation that entered after that exit has just signalled another process.
C9_Witness ==
    /\ ret[1].outcome = "Killed"
    /\ hist[1].entered_clear
    /\ tasks[ret[1].victim].fresh
    /\ time_before_eq(jiffies, lowmem_deathpending_timeout)
    /\ \E old \in DOMAIN tasks :
          old # ret[1].victim /\ tasks[old].memdie /\ tasks[old].st # "live"

\* C2: of two evaluations that run concurrently, at most one signals: an
\* evaluation during which another thread signalled does not signal itself.
C2_OneOfTwoSignals ==
    [][\A t \in Threads : Kills(t) => ~hist[t].peer_signalled]_vars

\* C10: an evaluation that runs while the suspend hooks replace the minfree
\* table ends its tier loop with the cutoff that the whole screen-on table or
\* the whole screen-off table gives for its reading, never another.
C10_TableNotTorn ==
    \A t \in Threads : pc[t] = "check" =>
        frame[t].min_adj \in {CutoffWith(frame[t], lowmem_minfree_screen_on),
                              CutoffWith(frame[t], lowmem_minfree_screen_off)}

\* The tiers below the shortest configured length of the three fields.
Shortest ==
    MinOf(MinOf(lowmem_adj_size, lowmem_minfree_size), lowmem_minfile_size)

\* C11: with the tier fields configured with different lengths the tier loop
\* ends as for a table of exactly as many tiers as the shortest field: with
\* the cutoff of the first breached tier among those, or none; no entry at
\* or beyond the shortest length has a part in it. Stated for evaluations
\* with the file-page check on, which consult all three fields.
C11_ShortestFieldTruncates ==
    \A t \in Threads : (pc[t] = "check" /\ lowmem_check_filepages # 0) =>
        LET B == {k \in 1..Shortest : Breached(frame[t], k)} IN
        IF B = {}
        THEN frame[t].min_adj = OOM_ADJUST_MAX + 1
        ELSE frame[t].min_adj = lowmem_adj[Lowest(B)]

\* The reading free=2000, file=5000, lru_file=10000.
ScenarioReading ==
    /\ vm.NR_FREE_PAGES = 2000
    /\ vm.NR_FILE_PAGES - vm.NR_SHMEM = 5000
    /\ vm.NR_ACTIVE_FILE + vm.NR_INACTIVE_FILE = 10000

\* C12, as stated: with tiers (0, 768, 1536), (8, 4096, 8192) and the
\* reading free=2000, file=5000, lru_file=10000 the tier loop ends with
\* cutoff 8.
C12_ScenarioCutoff8 ==
    \A t \in Threads : (pc[t] = "check" /\ ScenarioReading) =>
        frame[t].min_adj = 8

\* C12, amended: with that table and reading no tier is breached (free is
\* below the second tier's min_free, but file 5000 is not below min_free 4096
\* and lru_file 10000 is not below min_file 8192): the evaluation gets no
\* cutoff, scans and signals nothing and returns 0 on the no-action path,
\* with the file-page check off or on and with any swap credit.
C12_ScenarioNoTier ==
    ScenarioReading =>
        \A t \in Threads :
            /\ pc[t] \in {"idle", "tiers", "tier_file", "check"}
            /\ frame[t].min_adj = OOM_ADJUST_MAX + 1
            /\ ret[t].outcome \in {"none", "NoActionNeeded"}
            /\ ret[t].value = 0
            /\ \A p \in DOMAIN tasks : ~tasks[p].sigpending /\ ~tasks[p].memdie

\* C12 witness: the evaluation of that reading has returned on the no-action
\* path with the file-page check on.
C12_Witness ==
    /\ ScenarioReading
    /\ lowmem_check_filepages = 1
    /\ ret[1].outcome = "NoActionNeeded"

ClampToZero(x) == IF x < 0 THEN 0 ELSE x

\* C14: a counter read as negative is clamped to zero before the tiers are
\* compared: the tier loop ends with the cutoff that the reading gets with
\* its free count and its file count (file pages minus shared-memory pages)
\* set to 0 where negative, the swap credit added to the file count after
\* that. Stated for fudge budgets of 0 and more, where the credit is the
\* smaller of budget and free swap.
C14_NegativeClampedToZero ==
    \A t \in Threads : (pc[t] = "check" /\ fudgeswap >= 0) =>
        LET clamped ==
                [frame[t] EXCEPT
                   !.other_free = ClampToZero(vm.NR_FREE_PAGES),
                   !.other_file = ClampToZero(vm.NR_FILE_PAGES - vm.NR_SHMEM)
                                  + SwapCredit(fudgeswap, vm.freeswap)]
        IN  frame[t].min_adj = CutoffWith(clamped, lowmem_minfree)

\* C15: for every fudge budget and free swap, the file count used in the
\* tier comparison is file pages (less shared memory) plus the smaller of
\* free swap and the fudge budget.
C15_CreditIsMinimum ==
    \A t \in Threads : pc[t] # "idle" =>
        frame[t].other_file =
            vm.NR_FILE_PAGES - vm.NR_SHMEM + MinOf(vm.freeswap, fudgeswap)

\* A candidate the scan examines (no kernel thread, has an mm) that is
\* death-pending, while the deadline has not elapsed: now is not after it.
DyingCandidate(p) ==
    ~tasks[p].kthread /\ tasks[p].st = "live" /\ tasks[p].memdie
CooldownActive ==
    /\ \E p \in DOMAIN tasks : DyingCandidate(p)
    /\ ~time_after(jiffies, lowmem_deathpending_timeout)

\* C16: while some candidate is death-pending and the deadline has not
\* elapsed, no step of an evaluation signals or marks a process, wherever
\* that candidate stands in the list, and a scan ends deferred with 0
\* whatever it had selected before it met that candidate.
C16_DyingCandidateAborts ==
    [][\A t \in Threads : (EvalStep(t) /\ CooldownActive) =>
          /\ tasks' = tasks
          /\ (Returns(t) /\ pc[t] \in {"scan", "locked", "kill"}) =>
                /\ ret'[t].outcome = "DeferredCooldownActive"
                /\ ret'[t].value = 0
                /\ ret'[t].victim = NULL]_vars

\* C16 witness: a scan ended deferred on a death-pending candidate that
\* stood after an eligible one, with nobody death-pending before it.
C16_Witness ==
    /\ ret[1].outcome = "DeferredCooldownActive"
    /\ ~time_after(jiffies, lowmem_deathpending_timeout)
    /\ \E e, d \in DOMAIN tasks :
          /\ e < d
          /\ Eligible(e, 6)
          /\ DyingCandidate(d)
          /\ \A q \in 1..(d - 1) : ~tasks[q].memdie

\* C17: a call in query mode (nr_to_scan <= 0) never scans candidates,
\* signals or marks a process or touches the deadline, whatever the memory
\* state: it returns 0 when no tier is breached and otherwise the current
\* count of active and inactive anon and file LRU pages.
C17_QueryModeOnlyReports ==
    [][\A t \in Threads :
          (EvalStep(t) /\ pc[t] # "idle" /\ frame[t].nr_to_scan <= 0) =>
              /\ tasks' = tasks
              /\ UNCHANGED lowmem_deathpending_timeout
              /\ pc'[t] \notin {"scan", "locked", "kill"}
              /\ Returns(t) =>
                    ret'[t].value =
                        IF BreachedTiers(frame[t]) = {}
                        THEN 0
                        ELSE vm.NR_ACTIVE_ANON + vm.NR_ACTIVE_FILE
                             + vm.NR_INACTIVE_ANON + vm.NR_INACTIVE_FILE]_vars

\* C17 witness: a query returned the LRU page count under a breached tier
\* while a process that a scan would kill was listed.
C17_Witness ==
    /\ ret[1].outcome = "Query"
    /\ ret[1].value = vm.NR_ACTIVE_ANON + vm.NR_ACTIVE_FILE
                      + vm.NR_INACTIVE_ANON + vm.NR_INACTIVE_FILE
    /\ ret[1].value > 0
    /\ \E p \in DOMAIN tasks : Eligible(p, OOM_ADJUST_MAX)

\* The task locks thread t holds.
HeldBy(t) == {p \in DOMAIN alloc_lock : alloc_lock[p] = t}

\* C18: a thread holds a task lock only while it examines the process it
\* took it on: none when it moves to the next candidate or to the kill, and
\* out of lowmem_shrink, on whichever of the return paths, it holds neither
\* a task lock nor the RCU read lock; the RCU read lock is held from the
\* start of the scan to the return and nowhere else.
C18_LocksReleased ==
    \A t \in Threads :
        /\ pc[t] = "locked" => HeldBy(t) = {frame[t].tsk}
        /\ pc[t] # "locked" => HeldBy(t) = {}
        /\ rcu_nesting[t] = IF pc[t] \in {"scan", "locked", "kill"} THEN 1 ELSE 0

\* C18 witness: a scan that took task locks and then ended on the abort
\* path has returned with no lock held.
C18_Witness ==
    /\ ret[1].outcome = "DeferredCooldownActive"
    /\ pc[1] = "idle"
    /\ HeldBy(1) = {}
    /\ rcu_nesting[1] = 0
    /\ \E p \in DOMAIN tasks : DyingCandidate(p)

\* C19: however often the screen goes off and on again, with no table
\* written in between, after each screen-on lowmem_minfree is the table that
\* was in use before the first screen-off (an evaluation reads only the
\* tables, the counters and the processes, so it ends as it did before); and
\* the hooks never change the priority cutoffs, the minfile table or the
\* tier counts.
C19_ResumeRestoresTable ==
    /\ pm = "on" => lowmem_minfree = ScreenOnTable
    /\ lowmem_adj = Written(DefaultAdj, <<0, 8>>)
    /\ lowmem_minfile = DefaultMinfile
    /\ lowmem_adj_size = 2
    /\ lowmem_minfree_size = 2
    /\ lowmem_minfile_size = ARRAY_SIZE

\* C19 witness: the screen has gone off and on again (the first copy left
\* the table in lowmem_minfree_screen_on, the second had put the screen-off
\* table in use), and an evaluation is at the end of its tier loop with the
\* cutoff of the restored table, which the screen-off table does not give.
C19_Witness ==
    /\ pm = "on"
    /\ lowmem_minfree_screen_on = ScreenOnTable
    /\ lowmem_minfree_screen_on # lowmem_minfree_screen_off
    /\ lowmem_minfree = ScreenOnTable
    /\ pc[1] = "check"
    /\ frame[1].min_adj = CutoffWith(frame[1], ScreenOnTable)
    /\ frame[1].min_adj # CutoffWith(frame[1], lowmem_minfree_screen_off)

====
